---- MODULE Spec2Model ----
(***************************************************************************)
(* Cross-chain atomic-swap escrow (Dayitva/tesseract).                     *)
(*                                                                         *)
(* The escrow contract (TezosEscrow, LIGO) is modelled entry point by      *)
(* entry point as the function it is: (parameter, storage) -> (operations, *)
(* storage), where failwith aborts the call and leaves the storage as it   *)
(* was.  One escrow instance runs per chain; each chain has its own clock. *)
(* The operations a call returns are appended to a per-order log so that   *)
(* properties about fund transfers can be stated.                          *)
(***************************************************************************)
EXTENDS Integers, Sequences, FiniteSets, TLC

(***************************************************************************)
(* Bounds of the model.                                                    *)
(***************************************************************************)
MaxTime == 3
MaxOrders == 1
MaxDuration == 3
MaxAmount == 2
MaxPayouts == 2
NumSecrets == 2

(***************************************************************************)
(* Chains, addresses and byte strings.                                     *)
(***************************************************************************)
SrcChain == "src"
DstChain == "dst"
Chains == {SrcChain, DstChain}

Owner == "owner"
Alice == "alice"
Bob == "bob"
Addresses == {Alice, Bob, Owner}

\* A byte string is its length together with its content (an integer code).
HashLen == 32
Bytes(len, val) == [len |-> len, val |-> val]
Secrets == {Bytes(HashLen, v) : v \in 1..NumSecrets}

\* option<bytes>
None == <<>>
Some(x) == <<x>>
Option_is_some(o) == o # None

\* Crypto.keccak256: a 32-byte digest; distinct inputs of the model get
\* distinct digests, and no digest is its own preimage.
keccak256_hash(data) == Bytes(HashLen, 1000 + 100 * data.len + data.val)

check_hash_length_only(secret, hash) == keccak256_hash(secret).len = hash.len

check_hash(secret, hash) == keccak256_hash(secret) = hash

validate_time_window_inclusive(current_time, expiration) == current_time <= expiration

validate_time_window(current_time, expiration) == current_time < expiration

\* The secret hashes callers pass at creation: the digests of all secrets but
\* the last one (which stays a wrong guess for every order), and a byte string
\* of the wrong length.
ShortHash == Bytes(HashLen - 1, 0)
HashInputs == {keccak256_hash(s) : s \in {x \in Secrets : x.val < NumSecrets}} \cup {ShortHash}

(***************************************************************************)
(* The contract: results of a call.                                        *)
(***************************************************************************)
\* failwith msg: the call is aborted, no operation, storage untouched.
failwith(msg, storage) == [err |-> msg, ops |-> <<>>, storage |-> storage]

\* Operation.transfer_tokens amount destination ...
transfer_tokens(amount, to) == [to |-> to, amount |-> amount]

\* The tez a list of transfers moves.
RECURSIVE PaidOut(_)
PaidOut(log) == IF log = <<>> THEN 0 ELSE log[1].amount + PaidOut(Tail(log))

Return(ops, storage) == [err |-> "", ops |-> ops, storage |-> storage]

new_order(order_id, sender, amount, secret_hash, expiration_timestamp) ==
  [id |-> order_id,
   maker_address |-> sender,
   amount |-> amount,
   secret_hash |-> secret_hash,
   expiration_timestamp |-> expiration_timestamp,
   revealed_secret |-> None]

\* Big_map.update key (Some value) map
Big_map_update(key, value, map) ==
  [k \in DOMAIN map \cup {key} |-> IF k = key THEN value ELSE map[k]]

announce_order(src_amount, min_dst_amount, expiration_duration, secret_hash, storage, sender, time) ==
  IF src_amount <= 0 THEN failwith("Invalid amount", storage)
  ELSE IF min_dst_amount <= 0 THEN failwith("Invalid min amount", storage)
  ELSE IF expiration_duration <= 0 THEN failwith("Invalid expiration", storage)
  ELSE IF secret_hash.len # HashLen THEN failwith("Invalid secret hash length", storage)
  ELSE
    LET expiration_timestamp == time + expiration_duration
        order_id == storage.order_counter
    IN Return(<<>>,
              [orders |-> Big_map_update(order_id,
                             new_order(order_id, sender, src_amount, secret_hash,
                                       expiration_timestamp),
                             storage.orders),
               order_counter |-> storage.order_counter + 1,
               owner |-> storage.owner])

fund_dst_escrow_keeps_counter(dst_amount, expiration_duration, secret_hash, storage, sender, time) ==
  IF dst_amount <= 0 THEN failwith("Invalid amount", storage)
  ELSE IF expiration_duration <= 0 THEN failwith("Invalid expiration", storage)
  ELSE
    LET expiration_timestamp == time + expiration_duration
        order_id == storage.order_counter
    IN Return(<<>>,
              [orders |-> Big_map_update(order_id,
                             new_order(order_id, sender, dst_amount, secret_hash,
                                       expiration_timestamp),
                             storage.orders),
               order_counter |-> storage.order_counter,
               owner |-> storage.owner])

fund_dst_escrow(dst_amount, expiration_duration, secret_hash, storage, sender, time) ==
  IF dst_amount <= 0 THEN failwith("Invalid amount", storage)
  ELSE IF expiration_duration <= 0 THEN failwith("Invalid expiration", storage)
  ELSE
    LET expiration_timestamp == time + expiration_duration
        order_id == storage.order_counter
    IN Return(<<>>,
              [orders |-> Big_map_update(order_id,
                             new_order(order_id, sender, dst_amount, secret_hash,
                                       expiration_timestamp),
                             storage.orders),
               order_counter |-> storage.order_counter + 1,
               owner |-> storage.owner])

claim_funds_pays_maker(order_id, secret, storage, sender, time) ==
  IF order_id \notin DOMAIN storage.orders THEN failwith("Order not found", storage)
  ELSE
    LET order == storage.orders[order_id] IN
    IF Option_is_some(order.revealed_secret)
      THEN failwith("Order already claimed", storage)
    ELSE IF ~ validate_time_window(time, order.expiration_timestamp)
      THEN failwith("Order expired", storage)
    ELSE IF ~ check_hash(secret, order.secret_hash)
      THEN failwith("Invalid secret", storage)
    ELSE Return(<<transfer_tokens(order.amount, order.maker_address)>>,
                [storage EXCEPT !.orders[order_id].revealed_secret = Some(secret)])

claim_funds_forgets_secret(order_id, secret, storage, sender, time) ==
  IF order_id \notin DOMAIN storage.orders THEN failwith("Order not found", storage)
  ELSE
    LET order == storage.orders[order_id] IN
    IF Option_is_some(order.revealed_secret)
      THEN failwith("Order already claimed", storage)
    ELSE IF ~ validate_time_window(time, order.expiration_timestamp)
      THEN failwith("Order expired", storage)
    ELSE IF ~ check_hash(secret, order.secret_hash)
      THEN failwith("Invalid secret", storage)
    ELSE Return(<<transfer_tokens(order.amount, sender)>>, storage)

claim_funds_maker_only(order_id, secret, storage, sender, time) ==
  IF order_id \notin DOMAIN storage.orders THEN failwith("Order not found", storage)
  ELSE
    LET order == storage.orders[order_id] IN
    IF Option_is_some(order.revealed_secret)
      THEN failwith("Order already claimed", storage)
    ELSE IF ~ validate_time_window(time, order.expiration_timestamp)
      THEN failwith("Order expired", storage)
    ELSE IF ~ check_hash(secret, order.secret_hash)
      THEN failwith("Invalid secret", storage)
    ELSE IF sender # order.maker_address
      THEN failwith("Unauthorized", storage)
    ELSE Return(<<transfer_tokens(order.amount, sender)>>,
                [storage EXCEPT !.orders[order_id].revealed_secret = Some(secret)])

claim_funds_spends_amount(order_id, secret, storage, sender, time) ==
  IF order_id \notin DOMAIN storage.orders THEN failwith("Order not found", storage)
  ELSE
    LET order == storage.orders[order_id] IN
    IF Option_is_some(order.revealed_secret)
      THEN failwith("Order already claimed", storage)
    ELSE IF ~ validate_time_window(time, order.expiration_timestamp)
      THEN failwith("Order expired", storage)
    ELSE IF ~ check_hash(secret, order.secret_hash)
      THEN failwith("Invalid secret", storage)
    ELSE Return(<<transfer_tokens(order.amount, sender)>>,
                [storage EXCEPT !.orders[order_id].revealed_secret = Some(secret),
                                !.orders[order_id].amount = 0])

claim_funds_marks_attempt(order_id, secret, storage, sender, time) ==
  IF order_id \notin DOMAIN storage.orders THEN failwith("Order not found", storage)
  ELSE
    LET order == storage.orders[order_id] IN
    IF Option_is_some(order.revealed_secret)
      THEN failwith("Order already claimed", storage)
    ELSE IF ~ validate_time_window(time, order.expiration_timestamp)
      THEN failwith("Order expired", storage)
    ELSE IF ~ check_hash(secret, order.secret_hash)
      THEN failwith("Invalid secret",
                    [storage EXCEPT !.orders[order_id].revealed_secret = Some(secret)])
    ELSE Return(<<transfer_tokens(order.amount, sender)>>,
                [storage EXCEPT !.orders[order_id].revealed_secret = Some(secret)])

claim_funds(order_id, secret, storage, sender, time) ==
  IF order_id \notin DOMAIN storage.orders THEN failwith("Order not found", storage)
  ELSE
    LET order == storage.orders[order_id] IN
    IF Option_is_some(order.revealed_secret)
      THEN failwith("Order already claimed", storage)
    ELSE IF ~ validate_time_window(time, order.expiration_timestamp)
      THEN failwith("Order expired", storage)
    ELSE IF ~ check_hash(secret, order.secret_hash)
      THEN failwith("Invalid secret", storage)
    ELSE Return(<<transfer_tokens(order.amount, sender)>>,
                [storage EXCEPT !.orders[order_id].revealed_secret = Some(secret)])

cancel_swap_any_time(order_id, storage, sender, time) ==
  IF order_id \notin DOMAIN storage.orders THEN failwith("Order not found", storage)
  ELSE
    LET order == storage.orders[order_id] IN
    IF Option_is_some(order.revealed_secret)
      THEN failwith("Order already claimed", storage)
    ELSE Return(<<transfer_tokens(order.amount, order.maker_address)>>, storage)

cancel_swap_strict(order_id, storage, sender, time) ==
  IF order_id \notin DOMAIN storage.orders THEN failwith("Order not found", storage)
  ELSE
    LET order == storage.orders[order_id] IN
    IF Option_is_some(order.revealed_secret)
      THEN failwith("Order already claimed", storage)
    ELSE IF time <= order.expiration_timestamp
      THEN failwith("Order not expired yet", storage)
    ELSE Return(<<transfer_tokens(order.amount, order.maker_address)>>, storage)

cancel_swap_early(order_id, storage, sender, time) ==
  IF order_id \notin DOMAIN storage.orders THEN failwith("Order not found", storage)
  ELSE
    LET order == storage.orders[order_id] IN
    IF Option_is_some(order.revealed_secret)
      THEN failwith("Order already claimed", storage)
    ELSE IF validate_time_window(time + 1, order.expiration_timestamp)
      THEN failwith("Order not expired yet", storage)
    ELSE Return(<<transfer_tokens(order.amount, order.maker_address)>>, storage)

cancel_swap(order_id, storage, sender, time) ==
  IF order_id \notin DOMAIN storage.orders THEN failwith("Order not found", storage)
  ELSE
    LET order == storage.orders[order_id] IN
    IF Option_is_some(order.revealed_secret)
      THEN failwith("Order already claimed", storage)
    ELSE IF validate_time_window(time, order.expiration_timestamp)
      THEN failwith("Order not expired yet", storage)
    ELSE Return(<<transfer_tokens(order.amount, order.maker_address)>>, storage)

rescue_funds_any_caller(order_id, storage, sender, time) ==
  IF order_id \notin DOMAIN storage.orders THEN failwith("Order not found", storage)
  ELSE
    LET order == storage.orders[order_id] IN
    Return(<<transfer_tokens(order.amount, storage.owner)>>, storage)

rescue_funds_clears_secret(order_id, storage, sender, time) ==
  IF sender # storage.owner THEN failwith("Only owner can rescue funds", storage)
  ELSE IF order_id \notin DOMAIN storage.orders THEN failwith("Order not found", storage)
  ELSE
    LET order == storage.orders[order_id] IN
    Return(<<transfer_tokens(order.amount, storage.owner)>>,
           [storage EXCEPT !.orders[order_id].revealed_secret = None])

rescue_funds(order_id, storage, sender, time) ==
  IF sender # storage.owner THEN failwith("Only owner can rescue funds", storage)
  ELSE IF order_id \notin DOMAIN storage.orders THEN failwith("Order not found", storage)
  ELSE
    LET order == storage.orders[order_id] IN
    Return(<<transfer_tokens(order.amount, storage.owner)>>, storage)

\* The entry point: dispatch on the parameter's constructor.
main(param, storage, sender, time) ==
  CASE param.entry = "Announce_order" ->
         announce_order(param.src_amount, param.min_dst_amount,
                        param.expiration_duration, param.secret_hash,
                        storage, sender, time)
    [] param.entry = "Fund_dst_escrow" ->
         fund_dst_escrow(param.dst_amount, param.expiration_duration,
                         param.secret_hash, storage, sender, time)
    [] param.entry = "Claim_funds" ->
         claim_funds(param.order_id, param.secret, storage, sender, time)
    [] param.entry = "Cancel_swap" ->
         cancel_swap(param.order_id, storage, sender, time)
    [] param.entry = "Rescue_funds" ->
         rescue_funds(param.order_id, storage, sender, time)

(***************************************************************************)
(* State.                                                                  *)
(*   storage[c]  the contract storage of the escrow on chain c             *)
(*   now[c]      Tezos.now, the clock of chain c                           *)
(*   payouts[c]  for each order id, the transfer operations the contract   *)
(*               has returned for it, in order, each tagged with the entry *)
(*               point that returned it                                    *)
(*   deployed[c] for each order id, the time of its creation               *)
(*   original[c] for each order id, the record as its creating call stored *)
(*               it                                                        *)
(*   codec       the client's timelock codec: the schedule and anchor it   *)
(*               was given, the packed word and the unpacked schedule      *)
(*   ledger[c]   the tez the escrow of chain c holds and, for each order id, *)
(*               the tez sent with the call that created it                *)
(*   coord       one run of the swap coordinator: its scenario, its client, *)
(*               its position and the steps it has issued                  *)
(*   last        the last step: a call (chain, sender, parameter, the id   *)
(*               it is about, what the contract returned, and the storage  *)
(*               and log of the chain as the call found them) or a tick;   *)
(*               while last is a call, now is the time the call was made   *)
(***************************************************************************)
VARIABLES storage, now, payouts, deployed, original, codec, ledger, coord, last

vars == <<storage, now, payouts, deployed, original, codec, ledger, coord, last>>

NoCall == [entry |-> "none"]

\* The codec before it is used.
NoCodec == [pc |-> "idle"]

\* The ledger where balances are not followed, and no coordinator run.
NoLedger == [pc |-> "idle"]

NoCoord == [pc |-> "idle"]

\* The escrows as originated: no orders, order_counter 0.
EscrowInit ==
  /\ storage = [c \in Chains |-> [orders |-> <<>>, order_counter |-> 0, owner |-> Owner]]
  /\ now = [c \in Chains |-> 0]
  /\ payouts = [c \in Chains |-> <<>>]
  /\ deployed = [c \in Chains |-> <<>>]
  /\ original = [c \in Chains |-> <<>>]
  /\ last = NoCall

Init == EscrowInit /\ codec = NoCodec /\ ledger = NoLedger /\ coord = NoCoord

\* The id a call is about: the id it names, or the id a creating call assigns.
TargetId(param, st) ==
  IF param.entry \in {"Announce_order", "Fund_dst_escrow"}
    THEN st.order_counter
    ELSE param.order_id

\* The effect on chain c of a call with result r: the returned storage is
\* stored and the operations it returned are logged against the order.
Applied(c, sender, param, r) ==
  LET id == TargetId(param, storage[c])
      created == r.err = "" /\ param.entry \in {"Announce_order", "Fund_dst_escrow"}
      logged == [k \in 1..Len(r.ops) |->
                   [to |-> r.ops[k].to, amount |-> r.ops[k].amount, by |-> param.entry]]
  IN /\ storage' = [storage EXCEPT ![c] = r.storage]
     /\ payouts' = [payouts EXCEPT ![c] =
                      IF created THEN Big_map_update(id, <<>>, @)
                      ELSE IF r.ops # <<>> THEN [@ EXCEPT ![id] = @ \o logged]
                      ELSE @]
     /\ deployed' = [deployed EXCEPT ![c] =
                      IF created THEN Big_map_update(id, now[c], @) ELSE @]
     /\ original' = [original EXCEPT ![c] =
                      IF created THEN Big_map_update(id, r.storage.orders[id], @) ELSE @]
     /\ last' = [entry |-> param.entry, chain |-> c, sender |-> sender,
                 param |-> param, id |-> id, err |-> r.err, ops |-> r.ops,
                 pre |-> [storage |-> storage[c], payouts |-> payouts[c]]]

\* A transaction on chain c: the contract runs, its new storage is stored and
\* the operations it returned are logged against the order.
Invoke(c, sender, param) ==
  /\ Applied(c, sender, param, main(param, storage[c], sender, now[c]))
  /\ UNCHANGED <<now, codec, ledger, coord>>

\* The log of an order is kept within MaxPayouts entries.
CanLog(c, param) ==
  LET id == TargetId(param, storage[c])
  IN id \in DOMAIN payouts[c] => Len(payouts[c][id]) < MaxPayouts

OrderIds == 0..MaxOrders
Amounts == 0..MaxAmount
Durations == 0..MaxDuration

AnnounceOrder(c) ==
  \E sender \in Addresses \ {Owner}, src_amount \in Amounts, min_dst_amount \in 0..1,
     expiration_duration \in Durations, secret_hash \in HashInputs :
    /\ storage[c].order_counter < MaxOrders
    /\ Invoke(c, sender, [entry |-> "Announce_order", src_amount |-> src_amount,
                          min_dst_amount |-> min_dst_amount,
                          expiration_duration |-> expiration_duration,
                          secret_hash |-> secret_hash])

FundDstEscrow(c) ==
  \E sender \in Addresses \ {Owner}, dst_amount \in Amounts,
     expiration_duration \in Durations, secret_hash \in HashInputs :
    /\ storage[c].order_counter < MaxOrders
    /\ Invoke(c, sender, [entry |-> "Fund_dst_escrow", dst_amount |-> dst_amount,
                          expiration_duration |-> expiration_duration,
                          secret_hash |-> secret_hash])

ClaimFunds(c) ==
  \E sender \in Addresses, order_id \in OrderIds, secret \in Secrets :
    LET param == [entry |-> "Claim_funds", order_id |-> order_id, secret |-> secret]
    IN CanLog(c, param) /\ Invoke(c, sender, param)

CancelSwap(c) ==
  \E sender \in Addresses, order_id \in OrderIds :
    LET param == [entry |-> "Cancel_swap", order_id |-> order_id]
    IN CanLog(c, param) /\ Invoke(c, sender, param)

RescueFunds(c) ==
  \E sender \in Addresses, order_id \in OrderIds :
    LET param == [entry |-> "Rescue_funds", order_id |-> order_id]
    IN CanLog(c, param) /\ Invoke(c, sender, param)

\* A clock that may also go backwards.
Tick_backwards(c) ==
  /\ \E t \in {now[c] - 1, now[c] + 1} :
       /\ t \in 0..MaxTime
       /\ now' = [now EXCEPT ![c] = t]
  /\ last' = [entry |-> "tick", chain |-> c]
  /\ UNCHANGED <<storage, payouts, deployed, original, codec, ledger, coord>>

\* The chain's clock advances.
Tick(c) ==
  /\ now[c] < MaxTime
  /\ now' = [now EXCEPT ![c] = @ + 1]
  /\ last' = [entry |-> "tick", chain |-> c]
  /\ UNCHANGED <<storage, payouts, deployed, original, codec, ledger, coord>>

(***************************************************************************)
(* Spec: one escrow contract (the Tezos one), called by anybody with any   *)
(* parameters.                                                             *)
(***************************************************************************)
Next ==
  \/ AnnounceOrder(DstChain)
  \/ FundDstEscrow(DstChain)
  \/ ClaimFunds(DstChain)
  \/ CancelSwap(DstChain)
  \/ RescueFunds(DstChain)
  \/ Tick(DstChain)

Spec == Init /\ [][Next]_vars

(***************************************************************************)
(* SwapSpec: one two-leg swap.  The maker (Alice) generates the secret and *)
(* announces leg A on the source chain; once leg A exists the taker (Bob)  *)
(* funds leg B on the destination chain under the same secret hash.  Each  *)
(* leg is order 0 of its chain's escrow.  Then the two parties call Claim  *)
(* and Cancel on either leg in any order while the two clocks advance      *)
(* independently.  A party presents the swap's secret only if it knows it: *)
(* the maker from the start, anybody once a Claim has stored it on a chain.*)
(***************************************************************************)
Parties == {Alice, Bob}

SwapSecret == CHOOSE s \in Secrets : s.val = NumSecrets - 1

Revealed(s) ==
  \E c \in Chains : \E id \in DOMAIN storage[c].orders :
    storage[c].orders[id].revealed_secret = Some(s)

Knows(p, s) == s # SwapSecret \/ p = Alice \/ Revealed(s)

\* Leg A: the maker's announce_order on the source chain.  The expiration
\* duration is whatever schedule the run is configured with; nothing checks it.
SwapAnnounce ==
  \E expiration_duration \in 1..MaxDuration :
    /\ storage[SrcChain].order_counter = 0
    /\ Invoke(SrcChain, Alice,
              [entry |-> "Announce_order", src_amount |-> MaxAmount,
               min_dst_amount |-> 1, expiration_duration |-> expiration_duration,
               secret_hash |-> keccak256_hash(SwapSecret)])

\* Leg B: the taker's fund_dst_escrow on the destination chain, after leg A.
SwapFund ==
  \E expiration_duration \in 1..MaxDuration :
    /\ storage[SrcChain].order_counter = 1
    /\ storage[DstChain].order_counter = 0
    /\ Invoke(DstChain, Bob,
              [entry |-> "Fund_dst_escrow", dst_amount |-> 1,
               expiration_duration |-> expiration_duration,
               secret_hash |-> keccak256_hash(SwapSecret)])

SwapClaim ==
  \E c \in Chains, p \in Parties, secret \in Secrets :
    LET param == [entry |-> "Claim_funds", order_id |-> 0, secret |-> secret]
    IN Knows(p, secret) /\ CanLog(c, param) /\ Invoke(c, p, param)

SwapCancel ==
  \E c \in Chains, p \in Parties :
    LET param == [entry |-> "Cancel_swap", order_id |-> 0]
    IN CanLog(c, param) /\ Invoke(c, p, param)

\* Somebody who is no party of the swap reads a secret that a Claim has
\* stored on a chain and calls Claim with it.
Mallory == "mallory"

SwapIntrude ==
  \E c \in Chains, secret \in Secrets :
    LET param == [entry |-> "Claim_funds", order_id |-> 0, secret |-> secret]
    IN Revealed(secret) /\ CanLog(c, param) /\ Invoke(c, Mallory, param)

SwapTick == \E c \in Chains : Tick(c)

SwapNext ==
  SwapAnnounce \/ SwapFund \/ SwapClaim \/ SwapCancel \/ SwapIntrude \/ SwapTick

SwapSpec == Init /\ [][SwapNext]_vars

(***************************************************************************)
(* BookSpec: one escrow contract holding several records.  Alice announces *)
(* orders and Bob funds escrows, each with or without valid inputs; both   *)
(* claim, anybody cancels and the owner or a stranger rescues any order    *)
(* id, existing or not.  Each record's log is kept within MaxBookPayouts.  *)
(***************************************************************************)
MaxBookOrders == 2
MaxBookPayouts == 1

BookSecret == CHOOSE s \in Secrets : s.val = 1

\* A call that returns a transfer is made only while the record's log has room.
BookCanLog(sender, param) ==
  main(param, storage[DstChain], sender, now[DstChain]).ops # <<>>
    => Len(payouts[DstChain][param.order_id]) < MaxBookPayouts

BookAnnounce ==
  \E src_amount \in {0, MaxAmount}, min_dst_amount \in 0..1,
     expiration_duration \in 0..2, secret_hash \in {keccak256_hash(BookSecret), ShortHash} :
    /\ storage[DstChain].order_counter < MaxBookOrders
    /\ Invoke(DstChain, Alice,
              [entry |-> "Announce_order", src_amount |-> src_amount,
               min_dst_amount |-> min_dst_amount,
               expiration_duration |-> expiration_duration,
               secret_hash |-> secret_hash])

BookFund ==
  \E dst_amount \in 0..1, expiration_duration \in 0..2,
     secret_hash \in {keccak256_hash(BookSecret), ShortHash} :
    /\ storage[DstChain].order_counter < MaxBookOrders
    /\ Invoke(DstChain, Bob,
              [entry |-> "Fund_dst_escrow", dst_amount |-> dst_amount,
               expiration_duration |-> expiration_duration,
               secret_hash |-> secret_hash])

BookClaim ==
  \E sender \in Parties, order_id \in 0..MaxBookOrders, secret \in Secrets :
    LET param == [entry |-> "Claim_funds", order_id |-> order_id, secret |-> secret]
    IN BookCanLog(sender, param) /\ Invoke(DstChain, sender, param)

BookCancel ==
  \E order_id \in 0..MaxBookOrders :
    LET param == [entry |-> "Cancel_swap", order_id |-> order_id]
    IN BookCanLog(Alice, param) /\ Invoke(DstChain, Alice, param)

BookRescue ==
  \E sender \in {Owner, Bob}, order_id \in 0..MaxBookOrders :
    LET param == [entry |-> "Rescue_funds", order_id |-> order_id]
    IN BookCanLog(sender, param) /\ Invoke(DstChain, sender, param)

BookNext ==
  \/ BookAnnounce
  \/ BookFund
  \/ BookClaim
  \/ BookCancel
  \/ BookRescue
  \/ Tick(DstChain)

BookSpec == Init /\ [][BookNext]_vars

(***************************************************************************)
(* LedgerSpec: one escrow contract and the tez it holds.  A transaction    *)
(* credits the contract with the tez sent along with the call              *)
(* (Tezos.amount), runs the entry point and then executes the transfers it *)
(* returned out of the contract's balance; when the balance does not cover *)
(* them the whole transaction fails and nothing changes.  The contract     *)
(* never reads Tezos.amount, so a caller creates a record with or without  *)
(* sending its amount; the client sends none.                              *)
(***************************************************************************)
MaxLedgerPayouts == 2

LedgerInit ==
  /\ EscrowInit
  /\ codec = NoCodec
  /\ coord = NoCoord
  /\ ledger = [c \in Chains |-> [balance |-> 0, deposits |-> <<>>]]

\* A transaction on chain c carrying amount tez.
Transact(c, sender, amount, param) ==
  LET r == main(param, storage[c], sender, now[c])
      credited == ledger[c].balance + amount
      res == IF r.err = "" /\ PaidOut(r.ops) > credited
               THEN failwith("balance_too_low", storage[c])
               ELSE r
      id == TargetId(param, storage[c])
      created == res.err = "" /\ param.entry \in {"Announce_order", "Fund_dst_escrow"}
  IN /\ Applied(c, sender, param, res)
     /\ ledger' = [ledger EXCEPT ![c] =
                     IF res.err # "" THEN @
                     ELSE [balance |-> credited - PaidOut(res.ops),
                           deposits |-> IF created
                                          THEN Big_map_update(id, amount, @.deposits)
                                          ELSE @.deposits]]
     /\ UNCHANGED <<now, codec, coord>>

\* A call that returns a transfer is made only while the record's log has room.
LedgerCanLog(sender, param) ==
  main(param, storage[DstChain], sender, now[DstChain]).ops # <<>>
    => Len(payouts[DstChain][param.order_id]) < MaxLedgerPayouts

LedgerAnnounce ==
  \E src_amount \in 1..MaxAmount, sent \in 0..MaxAmount, expiration_duration \in 1..2 :
    /\ storage[DstChain].order_counter < MaxBookOrders
    /\ sent \in {0, src_amount}
    /\ Transact(DstChain, Alice, sent,
                [entry |-> "Announce_order", src_amount |-> src_amount,
                 min_dst_amount |-> 1,
                 expiration_duration |-> expiration_duration,
                 secret_hash |-> keccak256_hash(BookSecret)])

LedgerFund ==
  \E sent \in 0..1 :
    /\ storage[DstChain].order_counter < MaxBookOrders
    /\ Transact(DstChain, Bob, sent,
                [entry |-> "Fund_dst_escrow", dst_amount |-> 1,
                 expiration_duration |-> 2,
                 secret_hash |-> keccak256_hash(BookSecret)])

LedgerClaim ==
  \E sender \in Parties, order_id \in 0..(MaxBookOrders - 1) :
    LET param == [entry |-> "Claim_funds", order_id |-> order_id, secret |-> BookSecret]
    IN LedgerCanLog(sender, param) /\ Transact(DstChain, sender, 0, param)

LedgerCancel ==
  \E order_id \in 0..(MaxBookOrders - 1) :
    LET param == [entry |-> "Cancel_swap", order_id |-> order_id]
    IN LedgerCanLog(Alice, param) /\ Transact(DstChain, Alice, 0, param)

LedgerRescue ==
  \E order_id \in 0..(MaxBookOrders - 1) :
    LET param == [entry |-> "Rescue_funds", order_id |-> order_id]
    IN LedgerCanLog(Owner, param) /\ Transact(DstChain, Owner, 0, param)

LedgerNext ==
  \/ LedgerAnnounce
  \/ LedgerFund
  \/ LedgerClaim
  \/ LedgerCancel
  \/ LedgerRescue
  \/ Tick(DstChain)

LedgerSpec == LedgerInit /\ [][LedgerNext]_vars

(***************************************************************************)
(* The client's timelock codec (packTimelocks / unpackTimelocks): a        *)
(* schedule of NumStages stage times and its anchor deployedAt are packed  *)
(* into one word, the anchor in the top slot and each stage's offset from  *)
(* the anchor in the slot of its stage number, and the word is written as  *)
(* a hexadecimal string.  The code's slots are 32 bits wide; the model     *)
(* keeps the layout and gives a slot SlotBits bits.                        *)
(***************************************************************************)
SlotBits == 2
NumStages == 7

SlotMask == 2^SlotBits - 1
AnchorShift == NumStages * SlotBits
Stages == 0..(NumStages - 1)

\* BigInt arithmetic: a << n, a >> n, a | b (two's complement, of any sign) and
\* a & b (on non-negative values).
ShiftLeft(a, n) == a * 2^n

ShiftRight(a, n) == a \div 2^n

RECURSIVE BitOr(_, _)
BitOr(a, b) ==
  IF a = 0 THEN b
  ELSE IF b = 0 THEN a
  ELSE IF a = -1 \/ b = -1 THEN -1
  ELSE (IF a % 2 = 1 \/ b % 2 = 1 THEN 1 ELSE 0) + 2 * BitOr(a \div 2, b \div 2)

RECURSIVE BitAnd(_, _)
BitAnd(a, b) ==
  IF a = 0 \/ b = 0 THEN 0
  ELSE (IF a % 2 = 1 /\ b % 2 = 1 THEN 1 ELSE 0) + 2 * BitAnd(a \div 2, b \div 2)

\* The hexadecimal digits of a non-negative value, most significant first.
RECURSIVE HexDigits(_)
HexDigits(n) == IF n < 16 THEN <<n>> ELSE Append(HexDigits(n \div 16), n % 16)

\* '0x' + n.toString(16): a negative value is written with a minus sign before
\* its digits.
toString16(n) ==
  [prefix |-> "0x",
   sign |-> IF n < 0 THEN "-" ELSE "",
   digits |-> HexDigits(IF n < 0 THEN 0 - n ELSE n)]

\* An exception thrown out of a call.
Throw(name) == [error |-> name]

\* BigInt('0x...'): the value of a hexadecimal string; a sign after the prefix
\* is a SyntaxError.
RECURSIVE HexValue(_)
HexValue(digits) ==
  IF digits = <<>> THEN 0
  ELSE 16 * HexValue(SubSeq(digits, 1, Len(digits) - 1)) + digits[Len(digits)]

BigInt(str) == HexValue(str.digits)

\* The loop of packTimelocks from the given stage on.
RECURSIVE packStages(_, _, _, _)
packStages(packed, timelocks, deployedAt, stage) ==
  IF stage >= NumStages THEN packed
  ELSE IF stage \in DOMAIN timelocks
    THEN LET offset == timelocks[stage] - deployedAt
         IN packStages(BitOr(packed, ShiftLeft(offset, stage * SlotBits)),
                       timelocks, deployedAt, stage + 1)
    ELSE packStages(packed, timelocks, deployedAt, stage + 1)

packTimelocks(timelocks, deployedAt) ==
  toString16(packStages(ShiftLeft(deployedAt, AnchorShift), timelocks, deployedAt, 0))

unpackTimelocks_offsets(packedTimelocks) ==
  IF packedTimelocks.sign # "" THEN Throw("SyntaxError")
  ELSE
    LET data == BigInt(packedTimelocks)
        deployedAt == BitAnd(ShiftRight(data, AnchorShift), SlotMask)
    IN [deployedAt |-> deployedAt,
        stages |-> [stage \in Stages |->
                      BitAnd(ShiftRight(data, stage * SlotBits), SlotMask)]]

unpackTimelocks(packedTimelocks) ==
  IF packedTimelocks.sign # "" THEN Throw("SyntaxError")
  ELSE
    LET data == BigInt(packedTimelocks)
        deployedAt == BitAnd(ShiftRight(data, AnchorShift), SlotMask)
    IN [deployedAt |-> deployedAt,
        stages |-> [stage \in Stages |->
                      deployedAt + BitAnd(ShiftRight(data, stage * SlotBits), SlotMask)]]

\* The anchors and the stage offsets the codec is given: the smallest and the
\* largest a slot holds, and the first one it does not hold.
CodecAnchors == {0, SlotMask, SlotMask + 1}
CodecOffsets == {0, 1, SlotMask, SlotMask + 1}

\* The offsets of the schedules with one stage before the anchor, and of the
\* schedules that leave one stage out.
OneNegative ==
  {o \in [Stages -> {-1, 0, SlotMask}] : Cardinality({s \in Stages : o[s] = -1}) = 1}

OneOmitted ==
  UNION {[Stages \ {k} -> {0, SlotMask, SlotMask + 1}] : k \in Stages}

CodecInputs ==
  {[pc |-> "input", deployedAt |-> d, timelocks |-> [s \in DOMAIN o |-> d + o[s]],
    packed |-> <<>>, unpacked |-> <<>>] :
     d \in CodecAnchors, o \in [Stages -> CodecOffsets] \cup OneNegative \cup OneOmitted}

\* The words unpackTimelocks is given that no packTimelocks call made: every
\* slot, the anchor's included, is empty, one or full.
RECURSIVE WordOf(_, _)
WordOf(slots, s) ==
  IF s > NumStages THEN 0 ELSE ShiftLeft(slots[s], s * SlotBits) + WordOf(slots, s + 1)

CodecWords ==
  {[pc |-> "word", deployedAt |-> 0, timelocks |-> <<>>,
    packed |-> toString16(WordOf(slots, 0)), unpacked |-> <<>>] :
     slots \in [0..NumStages -> {0, 1, SlotMask}]}

\* The timelocks objects the coordinator builds.  A property key is a string:
\* timelocks[stage] reads the property whose key is the stage's number.
StageNames ==
  <<"srcWithdrawal", "srcPublicWithdrawal", "srcCancellation", "srcPublicCancellation",
    "dstWithdrawal", "dstPublicWithdrawal", "dstCancellation">>

StageKeys == <<"0", "1", "2", "3", "4", "5", "6">>

\* The delays of the demo's schedule and the durations of the integration
\* tests' order, in the unit that makes the longest one fill a slot.
demoOffsets == <<1, 2, 3, 3, 1, 2, 3>>

testDurations == <<1, 2, 2, 2, 1, 2, 2>>

\* demo.js: the stage times, keyed by the stages' names.
demoTimelocks(time) ==
  [i \in 1..NumStages |-> [key |-> StageNames[i], value |-> time + demoOffsets[i]]]

\* The integration tests: the order's durations, keyed by the stages' numbers.
testTimelocks ==
  [i \in 1..NumStages |-> [key |-> StageKeys[i], value |-> testDurations[i]]]

\* What packTimelocks reads of an object: its properties with a stage's number
\* for key (timelocks[stage] is undefined for any other).
Properties(object) ==
  [s \in {k \in Stages : \E i \in DOMAIN object : object[i].key = StageKeys[k + 1]} |->
     object[CHOOSE i \in DOMAIN object : object[i].key = StageKeys[s + 1]].value]

\* The clock of a coordinator: Math.floor(Date.now() / 1000), which fits a
\* slot and is beyond every duration of an order.
CoordClock == 1..SlotMask

\* The packTimelocks calls of the coordinator, each with the schedule it has
\* configured: demo.js passes its clock for deployedAt; so do the tests, whose
\* clock is later than every duration.
CoordinatorInputs ==
  {[pc |-> "input", deployedAt |-> t, timelocks |-> Properties(demoTimelocks(t)),
    packed |-> <<>>, unpacked |-> <<>>,
    schedule |-> [s \in Stages |-> demoTimelocks(t)[s + 1].value]] : t \in CoordClock}
  \cup
  {[pc |-> "input", deployedAt |-> t, timelocks |-> Properties(testTimelocks),
    packed |-> <<>>, unpacked |-> <<>>,
    schedule |-> [s \in Stages |-> testTimelocks[s + 1].value]] :
      t \in {c \in CoordClock : \A i \in 1..NumStages : testDurations[i] < c}}

CodecInit ==
  /\ EscrowInit
  /\ codec \in CodecInputs \cup CodecWords \cup CoordinatorInputs
  /\ ledger = NoLedger
  /\ coord = NoCoord

PackTimelocks ==
  /\ codec.pc = "input"
  /\ codec' = [codec EXCEPT !.pc = "packed",
                            !.packed = packTimelocks(codec.timelocks, codec.deployedAt)]
  /\ UNCHANGED <<storage, now, payouts, deployed, original, ledger, coord, last>>

UnpackTimelocks ==
  /\ codec.pc \in {"packed", "word"}
  /\ codec' = [codec EXCEPT !.pc = "unpacked",
                            !.unpacked = unpackTimelocks(codec.packed)]
  /\ UNCHANGED <<storage, now, payouts, deployed, original, ledger, coord, last>>

CodecNext == PackTimelocks \/ UnpackTimelocks

CodecSpec == CodecInit /\ [][CodecNext]_vars

(***************************************************************************)
(* validateEscrowParams, the parameter check of the same utility module.    *)
(* A string is the sequence of its characters; a parameter that is missing  *)
(* or empty is the empty sequence (both are falsy).  The variable codec     *)
(* holds the call in progress: the parameters, then the outcome.            *)
(***************************************************************************)
DecimalDigits == <<"0", "1", "2", "3", "4", "5", "6", "7", "8", "9">>

Range(seq) == {seq[i] : i \in DOMAIN seq}

\* The character classes of the regular expressions: [0-9a-fA-F], [1-3] and
\* [0-9a-zA-Z].
HexChars == Range(DecimalDigits) \cup {"a", "b", "c", "d", "e", "f", "A", "B", "C", "D", "E", "F"}

OneToThree == {"1", "2", "3"}

Letters ==
  {"a", "b", "c", "d", "e", "f", "g", "h", "i", "j", "k", "l", "m", "n", "o", "p", "q",
   "r", "s", "t", "u", "v", "w", "x", "y", "z", "A", "B", "C", "D", "E", "F", "G", "H",
   "I", "J", "K", "L", "M", "N", "O", "P", "Q", "R", "S", "T", "U", "V", "W", "X", "Y", "Z"}

AlphaNumeric == Range(DecimalDigits) \cup Letters

\* The repetition counts of the two regular expressions.
HexLength == 64
AddressTail == 33

\* str.match(/^0x[0-9a-fA-F]{64}$/)
MatchesHex(str) ==
  /\ Len(str) = 2 + HexLength
  /\ str[1] = "0"
  /\ str[2] = "x"
  /\ \A i \in 3..Len(str) : str[i] \in HexChars

\* str.match(/^t[1-3][0-9a-zA-Z]{33}$/)
MatchesAddress(str) ==
  /\ Len(str) = 2 + AddressTail
  /\ str[1] = "t"
  /\ str[2] \in OneToThree
  /\ \A i \in 3..Len(str) : str[i] \in AlphaNumeric

\* BigInt of a decimal string, with or without a sign.
RECURSIVE DecimalValue(_)
DecimalValue(str) ==
  IF str = <<>> THEN 0
  ELSE 10 * DecimalValue(SubSeq(str, 1, Len(str) - 1))
       + (CHOOSE n \in 0..9 : DecimalDigits[n + 1] = str[Len(str)])

BigIntDecimal(str) ==
  IF str # <<>> /\ str[1] = "-" THEN 0 - DecimalValue(Tail(str)) ELSE DecimalValue(str)

required ==
  <<"orderHash", "hashlock", "maker", "taker", "token", "amount", "safetyDeposit", "timelocks">>

\* A call that returns nothing.
Undefined == [returned |-> "undefined"]

validateEscrowParams(params) ==
  IF \E i \in DOMAIN required : params[required[i]] = <<>>
    THEN Throw(<<"Missing required parameter",
                 required[CHOOSE i \in DOMAIN required :
                            /\ params[required[i]] = <<>>
                            /\ \A j \in 1..(i - 1) : params[required[j]] # <<>>]>>)
  ELSE IF ~ MatchesHex(params.orderHash) THEN Throw("Invalid orderHash format")
  ELSE IF ~ MatchesHex(params.hashlock) THEN Throw("Invalid hashlock format")
  ELSE IF ~ MatchesAddress(params.maker) THEN Throw("Invalid maker Tezos address")
  ELSE IF ~ MatchesAddress(params.taker) THEN Throw("Invalid taker Tezos address")
  ELSE IF BigIntDecimal(params.amount) <= 0 THEN Throw("Amount must be positive")
  ELSE IF BigIntDecimal(params.safetyDeposit) < 0
    THEN Throw("Safety deposit cannot be negative")
  ELSE Undefined

\* The strings the check is given: a prefix followed by one character repeated.
Text(prefix, n, ch) == prefix \o [i \in 1..n |-> ch]

\* Hashes: 64 hex digits after 0x, one digit short, without the prefix, with a
\* digit that is not hexadecimal, and none.
HashTexts ==
  {Text(<<"0", "x">>, HexLength, "a"), Text(<<"0", "x">>, HexLength, "F"),
   Text(<<"0", "x">>, HexLength - 1, "a"), Text(<<>>, HexLength, "a"),
   Text(<<"0", "x">>, HexLength, "g"), <<>>}

\* Addresses: tz1, tz2 and tz3 addresses of 36 characters, t1 followed by 33
\* characters, a tz1 address one character short, an originated contract's
\* address, and none.
AddressTexts ==
  {Text(<<"t", "z", "1">>, AddressTail, "V"), Text(<<"t", "z", "2">>, AddressTail, "a"),
   Text(<<"t", "z", "3">>, AddressTail, "9"), Text(<<"t", "1">>, AddressTail, "a"),
   Text(<<"t", "z", "1">>, AddressTail - 1, "V"), Text(<<"K", "T", "1">>, AddressTail, "a"),
   <<>>}

AmountTexts == {<<"-", "1">>, <<"0">>, <<"1">>, <<"1", "0">>, <<>>}

ValidateInputs ==
  {[pc |-> "params",
    params |-> [orderHash |-> o, hashlock |-> h, maker |-> m, taker |-> t,
                token |-> k, amount |-> a, safetyDeposit |-> d, timelocks |-> l],
    result |-> <<>>] :
     o \in HashTexts, h \in {Text(<<"0", "x">>, HexLength, "a"), <<>>},
     m \in AddressTexts, t \in AddressTexts, k \in {<<"X", "T", "Z">>, <<>>},
     a \in AmountTexts, d \in AmountTexts, l \in {<<0, 1, 1, 1, 0, 1, 1>>, <<>>}}

ValidateInit ==
  /\ EscrowInit
  /\ codec \in ValidateInputs
  /\ ledger = NoLedger
  /\ coord = NoCoord

ValidateEscrowParams ==
  /\ codec.pc = "params"
  /\ codec' = [codec EXCEPT !.pc = "validated",
                            !.result = validateEscrowParams(codec.params)]
  /\ UNCHANGED <<storage, now, payouts, deployed, original, ledger, coord, last>>

ValidateNext == ValidateEscrowParams

ValidateSpec == ValidateInit /\ [][ValidateNext]_vars

(***************************************************************************)
(* The swap coordinator: the scenarios of the demo script and of the       *)
(* integration tests.  A scenario generates a secret, commits to it and    *)
(* issues its steps one after the other, awaiting each one: calls of the   *)
(* Tezos client (announceOrder, claimFunds, cancelSwap), calls of the EVM  *)
(* resolver, and simulated operations that only wait.  The mock clients    *)
(* always report success; a call of the production client or of the        *)
(* resolver is confirmed by its chain or throws.  An exception ends the    *)
(* scenario unless the step is wrapped in a try/catch of its own.          *)
(***************************************************************************)
\* crypto.createHash('sha256'): another digest function than keccak256.
sha256_hash(data) == Bytes(HashLen, 2000 + 100 * data.len + data.val)

MockClient == "mock"
TaquitoClient == "taquito"
ForkMock == "mockTezosUtils"

DemoScenarios == {"demonstrateEVMtoTezosSwap", "demonstrateTezostoEVMSwap", "demonstrateTimelockFunctionality", "demonstrateHashlockSecurity"}
TestScenarios == {"EVM to Tezos Atomic Swap", "Tezos to EVM Atomic Swap"}
ForkScenarios == {"fork: EVM to Tezos swap", "fork: Tezos to EVM swap"}
Scenarios == DemoScenarios \cup TestScenarios \cup ForkScenarios

\* The commitment a scenario computes for its secret.
Commit(scenario, secret) ==
  IF scenario \in ForkScenarios THEN sha256_hash(secret) ELSE keccak256_hash(secret)

\* A call of the Tezos client.
announceOrder(leg, secretHash) ==
  [chain |-> "tezos", call |-> "announce", leg |-> leg, simulated |-> FALSE,
   caught |-> FALSE, order_id |-> None, secret |-> None, secret_hash |-> Some(secretHash)]

claimFunds(leg, orderId, secret, caught) ==
  [chain |-> "tezos", call |-> "claim", leg |-> leg, simulated |-> FALSE,
   caught |-> caught, order_id |-> Some(orderId), secret |-> Some(secret), secret_hash |-> None]

cancelSwap(leg, orderId) ==
  [chain |-> "tezos", call |-> "cancel", leg |-> leg, simulated |-> FALSE,
   caught |-> FALSE, order_id |-> Some(orderId), secret |-> None, secret_hash |-> None]

\* A call of the EVM resolver (deploySrc, deployDst, withdraw) or of the EVM
\* mock of the fork test.
resolver(call, leg, secret, secretHash) ==
  [chain |-> "evm", call |-> call, leg |-> leg, simulated |-> FALSE,
   caught |-> FALSE, order_id |-> None, secret |-> secret, secret_hash |-> secretHash]

\* simulateEVMOperation / simulateTezosOperation: a sleep.
simulate(chain, call, leg) ==
  [chain |-> chain, call |-> call, leg |-> leg, simulated |-> TRUE,
   caught |-> FALSE, order_id |-> None, secret |-> None, secret_hash |-> None]

\* The steps of a scenario, in the order the code awaits them.
StepsOf(scenario, secret, wrongSecret) ==
  LET hashlock == Commit(scenario, secret)
  IN CASE scenario = "demonstrateEVMtoTezosSwap" ->
            << announceOrder("dst", hashlock),
               simulate("evm", "create", "src"),
               simulate("tezos", "fund", "dst"),
               simulate("evm", "fund", "src"),
               claimFunds("dst", 0, secret, FALSE),
               simulate("evm", "claim", "src") >>
       [] scenario = "demonstrateTezostoEVMSwap" ->
            << announceOrder("src", hashlock),
               simulate("evm", "create", "dst"),
               simulate("tezos", "fund", "src"),
               simulate("evm", "fund", "dst"),
               claimFunds("src", 1, secret, FALSE),
               simulate("evm", "claim", "dst") >>
       [] scenario = "demonstrateTimelockFunctionality" ->
            << announceOrder("src", hashlock),
               cancelSwap("src", 2) >>
       [] scenario = "demonstrateHashlockSecurity" ->
            << announceOrder("src", hashlock),
               claimFunds("src", 3, wrongSecret, TRUE),
               claimFunds("src", 3, secret, FALSE) >>
       [] scenario = "EVM to Tezos Atomic Swap" ->
            << resolver("create", "src", None, Some(hashlock)),
               announceOrder("dst", hashlock),
               claimFunds("dst", 0, secret, FALSE),
               resolver("claim", "src", Some(secret), None) >>
       [] scenario = "Tezos to EVM Atomic Swap" ->
            << announceOrder("src", hashlock),
               resolver("create", "dst", None, Some(hashlock)),
               claimFunds("src", 0, secret, FALSE),
               resolver("claim", "dst", Some(secret), None) >>
       [] scenario = "fork: EVM to Tezos swap" ->
            << resolver("create", "src", None, Some(hashlock)),
               announceOrder("dst", hashlock),
               claimFunds("dst", 0, secret, FALSE),
               resolver("claim", "src", Some(secret), None) >>
       [] scenario = "fork: Tezos to EVM swap" ->
            << announceOrder("src", hashlock),
               resolver("create", "dst", None, Some(hashlock)),
               resolver("claim", "dst", Some(secret), None),
               claimFunds("src", 0, secret, FALSE) >>

\* The clients a scenario runs with: the fork test brings its own mocks; the
\* demo and the integration tests construct a TezosEscrowClient, the mock
\* one or the production one that stands behind it.
\* The minimum destination amount every announceOrder of the coordinator passes.
minDstAmount == 0

\* The announce_order call the production client sends for an announceOrder
\* step: a positive amount, a positive duration, the run's 32-byte commitment.
AnnounceCall(step) ==
  [entry |-> "Announce_order", src_amount |-> MaxAmount,
   min_dst_amount |-> minDstAmount, expiration_duration |-> MaxDuration,
   secret_hash |-> step.secret_hash[1]]

ClientsOf(scenario) ==
  IF scenario \in ForkScenarios THEN {ForkMock} ELSE {MockClient, TaquitoClient}

\* Whether the awaited call of a step can throw.
CanThrow(scenario, client, step) ==
  /\ ~ step.simulated
  /\ scenario \notin ForkScenarios
  /\ step.chain = "tezos" => client = TaquitoClient

\* The order_counter of the Tezos escrow the run talks to goes up to MaxCounter.
MaxCounter == 4

\* The escrow a run starts on has assigned any number of ids already (the
\* scenarios of the demo run one after the other on one escrow).
CoordRuns ==
  UNION {{[pc |-> "ready", scenario |-> sc, client |-> cl, secret |-> s,
           steps |-> StepsOf(sc, s, w), next |-> 1, log |-> <<>>,
           order_counter |-> n] :
             cl \in ClientsOf(sc), w \in Secrets \ {s}} :
         sc \in Scenarios, s \in Secrets, n \in 0..(MaxCounter - 1)}

CoordInit ==
  /\ EscrowInit
  /\ codec = NoCodec
  /\ ledger = NoLedger
  /\ coord \in CoordRuns

\* The run goes on with the step after the one just awaited, if any.
Advance(run) ==
  [run EXCEPT !.next = @ + 1,
              !.pc = IF run.next < Len(run.steps) THEN "ready" ELSE "done"]

\* The scenario issues its next step and awaits it.
CoordIssue ==
  /\ coord.pc = "ready"
  /\ coord' = [coord EXCEPT !.pc = "awaiting",
                            !.log = Append(@, [step |-> coord.steps[coord.next],
                                               outcome |-> "pending",
                                               assigned |-> None])]
  /\ UNCHANGED <<storage, now, payouts, deployed, original, codec, ledger, last>>

\* Whether a confirmed step has created an order on the Tezos escrow: an
\* announceOrder of the production client; the mock client calls no escrow.
Creates(run) ==
  /\ run.steps[run.next].chain = "tezos"
  /\ run.steps[run.next].call = "announce"
  /\ run.client = TaquitoClient

\* The id of the order a confirmed announceOrder has created: the escrow's
\* order_counter; the mock of the fork test returns orderId 0.
AssignedId(run) ==
  IF Creates(run) THEN Some(run.order_counter)
  ELSE IF run.client = ForkMock /\ run.steps[run.next].chain = "tezos"
                                /\ run.steps[run.next].call = "announce" THEN Some(0)
  ELSE None

\* The awaited call returns: the step is confirmed.
CoordResolve ==
  /\ coord.pc = "awaiting"
  /\ Creates(coord) => coord.order_counter < MaxCounter
  /\ coord' = Advance([coord EXCEPT
                         !.log[Len(coord.log)].outcome = "confirmed",
                         !.log[Len(coord.log)].assigned = AssignedId(coord),
                         !.order_counter = IF Creates(coord) THEN @ + 1 ELSE @])
  /\ UNCHANGED <<storage, now, payouts, deployed, original, codec, ledger, last>>

\* Another party's Announce or Fund is accepted by the same escrow.
CoordInterleave ==
  /\ coord.pc \in {"ready", "awaiting"}
  /\ coord.client = TaquitoClient
  /\ coord.order_counter < MaxCounter
  /\ coord' = [coord EXCEPT !.order_counter = @ + 1]
  /\ UNCHANGED <<storage, now, payouts, deployed, original, codec, ledger, last>>

\* A coordinator that goes on to its next step whatever the awaited call did.
CoordReject_continues ==
  /\ coord.pc = "awaiting"
  /\ CanThrow(coord.scenario, coord.client, coord.steps[coord.next])
  /\ coord' = Advance([coord EXCEPT !.log[Len(coord.log)].outcome = "failed"])
  /\ UNCHANGED <<storage, now, payouts, deployed, original, codec, ledger, last>>

\* The awaited call throws: the scenario's catch ends it, the catch around
\* the step itself lets it go on.
CoordReject ==
  /\ coord.pc = "awaiting"
  /\ CanThrow(coord.scenario, coord.client, coord.steps[coord.next])
  /\ LET failed == [coord EXCEPT !.log[Len(coord.log)].outcome = "failed"]
     IN coord' = IF coord.steps[coord.next].caught
                   THEN Advance(failed)
                   ELSE [failed EXCEPT !.pc = "failed"]
  /\ UNCHANGED <<storage, now, payouts, deployed, original, codec, ledger, last>>

CoordNext == CoordIssue \/ CoordResolve \/ CoordReject \/ CoordInterleave

CoordSpec == CoordInit /\ [][CoordNext]_vars

(***************************************************************************)
(* The mock Tezos client of the demo (scripts/tezosUtils.js).  Each of its  *)
(* methods logs its parameters, waits a second and returns a fresh          *)
(* transaction hash; it holds no orders and calls no contract.              *)
(***************************************************************************)
\* The method of the client that sends a call of the given entry point.
MethodOf(entry) ==
  CASE entry = "Announce_order" -> "announceOrder"
    [] entry = "Fund_dst_escrow" -> "fundDstEscrow"
    [] entry = "Claim_funds" -> "claimFunds"
    [] entry = "Cancel_swap" -> "cancelSwap"

\* '0x' and the hex digits of 32 random bytes: some hash.
MockHash == [prefix |-> "0x", digits |-> "random"]

\* What a method of the mock client returns for any parameters.
MockTezosEscrowClient(method, params) ==
  CASE method = "announceOrder" -> [hash |-> MockHash]
    [] method = "fundDstEscrow" -> [hash |-> MockHash]
    [] method = "claimFunds" -> [hash |-> MockHash]
    [] method = "cancelSwap" -> [hash |-> MockHash]

(***************************************************************************)
(* Vocabulary of the properties.  While last is a call, "Pre" is the state *)
(* the call found and the current state is the one it left.                *)
(***************************************************************************)
Exists(c, id) == id \in DOMAIN storage[c].orders

Order(c, id) == storage[c].orders[id]

IsCall(entry) == last.entry = entry

\* The last step was a call of the given entry point on an existing record.
CalledOn(entry) == IsCall(entry) /\ last.id \in DOMAIN last.pre.storage.orders

PreOrder == last.pre.storage.orders[last.id]

PrePayouts == last.pre.payouts[last.id]

CallTime == now[last.chain]

\* Status of a record.  The contract stores only revealed_secret; whether a
\* record was cancelled or rescued shows in the transfers returned for it.
Announced(c, id) ==
  /\ Exists(c, id)
  /\ ~ Option_is_some(Order(c, id).revealed_secret)
  /\ payouts[c][id] = <<>>

PreAnnounced ==
  /\ last.id \in DOMAIN last.pre.storage.orders
  /\ ~ Option_is_some(PreOrder.revealed_secret)
  /\ PrePayouts = <<>>

TerminalEntries == {"Claim_funds", "Cancel_swap", "Rescue_funds"}

\* The last call failed, changed nothing and returned no transfer.
ChangedNothing ==
  /\ last.err # ""
  /\ last.ops = <<>>
  /\ storage[last.chain] = last.pre.storage
  /\ payouts[last.chain] = last.pre.payouts

\* The last call succeeded and returned exactly one transfer, of the record's
\* amount to the given address.
PaidOnce(to) ==
  /\ last.err = ""
  /\ last.ops = <<[to |-> to, amount |-> PreOrder.amount]>>
  /\ payouts[last.chain][last.id] =
       PrePayouts \o <<[to |-> to, amount |-> PreOrder.amount, by |-> last.entry]>>

\* The transfers a party has been sent out of a leg of the swap.
ReceivedFrom(p, c) ==
  /\ Exists(c, 0)
  /\ \E k \in 1..Len(payouts[c][0]) : payouts[c][0][k].to = p

\* The finality lock of the schedules: the withdrawal stage of a leg opens
\* this long after its creation (one unit of the model's time).
dstWithdrawal == 1

WithdrawalTime(c, id) == deployed[c][id] + dstWithdrawal

(***************************************************************************)
(* C1 - atomicity of a two-leg swap: no reachable state has one party      *)
(* holding the funds of both legs (both legs paid out to the same party).  *)
(***************************************************************************)
C1_Atomicity ==
  \A p \in Parties : ~ (ReceivedFrom(p, SrcChain) /\ ReceivedFrom(p, DstChain))

(***************************************************************************)
(* C2 - terminal monotonicity: a Claim, Cancel or Rescue on a record that  *)
(* was already the target of a successful Claim, Cancel or Rescue fails as *)
(* already finalized, changes nothing and returns no transfer.             *)
(***************************************************************************)
C2_TerminalMonotonicity ==
  (last.entry \in TerminalEntries /\ CalledOn(last.entry) /\ PrePayouts # <<>>)
    => (last.err = "Order already claimed" /\ ChangedNothing)

(***************************************************************************)
(* C3 - cross-leg ordering: whenever both legs of a swap exist, the        *)
(* destination leg's withdrawal window closes strictly before the source   *)
(* leg's cancellation window opens.                                        *)
(***************************************************************************)
C3_CrossLegOrdering ==
  (Exists(SrcChain, 0) /\ Exists(DstChain, 0))
    => Order(DstChain, 0).expiration_timestamp < Order(SrcChain, 0).expiration_timestamp

(***************************************************************************)
(* C4 - successful claim: a Claim on an Announced record, before its       *)
(* expiration, with a secret whose keccak256 digest is the stored hash,    *)
(* succeeds; afterwards revealed_secret is that secret and exactly one     *)
(* transfer, of the record's amount to the claimant, has been returned.    *)
(***************************************************************************)
C4_SuccessfulClaim ==
  ( /\ IsCall("Claim_funds")
    /\ PreAnnounced
    /\ CallTime < PreOrder.expiration_timestamp
    /\ keccak256_hash(last.param.secret) = PreOrder.secret_hash )
  => ( /\ PaidOnce(last.sender)
       /\ Order(last.chain, last.id).revealed_secret = Some(last.param.secret)
       /\ ~ Announced(last.chain, last.id) )

C4_Witness ==
  /\ IsCall("Claim_funds")
  /\ PreAnnounced
  /\ last.err = ""
  /\ last.sender # PreOrder.maker_address
  /\ Order(last.chain, last.id).revealed_secret = Some(last.param.secret)
  /\ payouts[last.chain][last.id] =
       <<[to |-> last.sender, amount |-> PreOrder.amount, by |-> "Claim_funds"]>>

(***************************************************************************)
(* C5 - wrong secret.  As claimed: a Claim on an Announced record with a   *)
(* secret whose digest differs from the stored hash fails with "Invalid    *)
(* secret".                                                                *)
(***************************************************************************)
C5_WrongSecretAnyTime ==
  ( /\ IsCall("Claim_funds")
    /\ PreAnnounced
    /\ keccak256_hash(last.param.secret) # PreOrder.secret_hash )
  => last.err = "Invalid secret"

(***************************************************************************)
(* C5 as amended: a Claim on an Announced record made before the record's  *)
(* expiration with a secret whose digest differs from the stored hash      *)
(* fails with "Invalid secret", changes nothing and returns no transfer;   *)
(* in the state it leaves, the record is still Announced and a Claim with  *)
(* a matching secret at any time before the expiration succeeds.           *)
(***************************************************************************)
C5_WrongSecret ==
  ( /\ IsCall("Claim_funds")
    /\ PreAnnounced
    /\ CallTime < PreOrder.expiration_timestamp
    /\ keccak256_hash(last.param.secret) # PreOrder.secret_hash )
  => ( /\ last.err = "Invalid secret"
       /\ ChangedNothing
       /\ Announced(last.chain, last.id)
       /\ \A s \in Secrets, a \in Addresses, t \in CallTime..MaxTime :
            (keccak256_hash(s) = PreOrder.secret_hash
               /\ t < PreOrder.expiration_timestamp)
            => LET r == main([entry |-> "Claim_funds", order_id |-> last.id, secret |-> s],
                             storage[last.chain], a, t)
               IN r.err = "" /\ r.ops = <<[to |-> a, amount |-> PreOrder.amount]>> )

C5_Witness ==
  /\ IsCall("Claim_funds")
  /\ PreAnnounced
  /\ last.err = "Invalid secret"
  /\ CallTime < PreOrder.expiration_timestamp
  /\ \E s \in Secrets : keccak256_hash(s) = PreOrder.secret_hash

(***************************************************************************)
(* C6 - refund availability: on an Announced record, at any time at or     *)
(* after its expiration, a Cancel by the maker succeeds and returns one    *)
(* transfer of the record's amount to maker_address.                       *)
(***************************************************************************)
C6_RefundAvailable ==
  ( /\ IsCall("Cancel_swap")
    /\ PreAnnounced
    /\ CallTime >= PreOrder.expiration_timestamp
    /\ last.sender = PreOrder.maker_address )
  => PaidOnce(PreOrder.maker_address)

\* The maker is refunded at the expiration time itself, and no counterpart leg
\* was ever created on the other chain.
C6_Witness ==
  /\ IsCall("Cancel_swap")
  /\ PreAnnounced
  /\ last.err = ""
  /\ last.sender = PreOrder.maker_address
  /\ CallTime = PreOrder.expiration_timestamp
  /\ payouts[last.chain][last.id] =
       <<[to |-> last.sender, amount |-> PreOrder.amount, by |-> "Cancel_swap"]>>
  /\ \A c \in Chains \ {last.chain} : storage[c].order_counter = 0

(***************************************************************************)
(* C7 - claim before the withdrawal window: a Claim on an Announced record *)
(* with the matching secret, made before the record's withdrawal-stage     *)
(* time, fails, changes nothing and returns no transfer.                   *)
(***************************************************************************)
C7_ClaimBeforeWithdrawal ==
  ( /\ IsCall("Claim_funds")
    /\ PreAnnounced
    /\ CallTime < WithdrawalTime(last.chain, last.id)
    /\ keccak256_hash(last.param.secret) = PreOrder.secret_hash )
  => ChangedNothing

(***************************************************************************)
(* C8 - cancel before the cancellation time: a Cancel made strictly before *)
(* the record's expiration fails for every caller, the maker included,     *)
(* changes nothing and returns no transfer; on an unclaimed record the     *)
(* failure is "Order not expired yet".                                     *)
(***************************************************************************)
C8_CancelTooEarly ==
  (CalledOn("Cancel_swap") /\ CallTime < PreOrder.expiration_timestamp)
  => ( /\ ChangedNothing
       /\ ~ Option_is_some(PreOrder.revealed_secret) => last.err = "Order not expired yet" )

C8_Witness ==
  /\ IsCall("Cancel_swap")
  /\ PreAnnounced
  /\ last.sender = PreOrder.maker_address
  /\ CallTime + 1 = PreOrder.expiration_timestamp
  /\ last.err = "Order not expired yet"

(***************************************************************************)
(* C9 - claim after the window: on a record with no revealed secret, a     *)
(* Claim made at or after the expiration fails with "Order expired", even  *)
(* with the matching secret, changes nothing (revealed_secret stays unset) *)
(* and returns no transfer; at the expiration time itself the Claim fails  *)
(* and a Cancel succeeds.                                                  *)
(***************************************************************************)
C9_ClaimAfterWindow ==
  ( /\ CalledOn("Claim_funds")
    /\ ~ Option_is_some(PreOrder.revealed_secret)
    /\ CallTime >= PreOrder.expiration_timestamp )
  => ( /\ last.err = "Order expired"
       /\ ChangedNothing
       /\ Order(last.chain, last.id).revealed_secret = None
       /\ CallTime = PreOrder.expiration_timestamp
            => \A a \in Addresses :
                 main([entry |-> "Cancel_swap", order_id |-> last.id],
                      storage[last.chain], a, CallTime).err = "" )

C9_Witness ==
  /\ CalledOn("Claim_funds")
  /\ PreOrder.revealed_secret = None
  /\ keccak256_hash(last.param.secret) = PreOrder.secret_hash
  /\ CallTime = PreOrder.expiration_timestamp
  /\ last.err = "Order expired"

(***************************************************************************)
(* C10 - cancel authorization: at the time the cancellation stage opens    *)
(* (the private stage: no later, public stage has opened yet) a Cancel     *)
(* from a caller other than the record's maker_address fails, changes      *)
(* nothing and returns no transfer.                                        *)
(***************************************************************************)
C10_CancelOnlyByMaker ==
  ( /\ CalledOn("Cancel_swap")
    /\ CallTime = PreOrder.expiration_timestamp
    /\ last.sender # PreOrder.maker_address )
  => ChangedNothing

(***************************************************************************)
(* C11 - rescue authorization: a Rescue from a caller other than the       *)
(* storage owner fails with "Only owner can rescue funds" whatever the     *)
(* record's state and whether or not the order exists, changes nothing and *)
(* returns no transfer; a Rescue that succeeds was called by the owner and *)
(* returns one transfer, to the owner.                                     *)
(***************************************************************************)
C11_RescueOnlyByOwner ==
  IsCall("Rescue_funds")
  => ( /\ last.sender # last.pre.storage.owner
            => (last.err = "Only owner can rescue funds" /\ ChangedNothing)
       /\ last.err = ""
            => ( /\ last.sender = last.pre.storage.owner
                 /\ PaidOnce(last.pre.storage.owner) ) )

\* A stranger's Rescue on a record that a Claim has already paid out.
C11_Witness ==
  /\ CalledOn("Rescue_funds")
  /\ last.sender # last.pre.storage.owner
  /\ Option_is_some(PreOrder.revealed_secret)
  /\ last.err = "Only owner can rescue funds"

(***************************************************************************)
(* C12 - rescue delay: a Rescue by the owner made before the record's      *)
(* creation time plus the rescue delay fails, changes nothing and returns  *)
(* no transfer.                                                            *)
(***************************************************************************)
\* The rescue delay the deployment configures (one unit of the model's time).
rescueDelayDst == 1

C12_RescueDelay ==
  ( /\ CalledOn("Rescue_funds")
    /\ last.sender = last.pre.storage.owner
    /\ CallTime < deployed[last.chain][last.id] + rescueDelayDst )
  => ChangedNothing

(***************************************************************************)
(* C13 - racing claimants: of the Claims made with the matching secret on  *)
(* one record, the first one processed succeeds and every later one, by    *)
(* whatever caller, fails with "Order already claimed", changes nothing    *)
(* and returns no transfer; no record ever has more than one claim         *)
(* transfer in its log.                                                    *)
(***************************************************************************)
\* The number of transfers that Claims have returned for a record.
ClaimCount(log) == Cardinality({k \in 1..Len(log) : log[k].by = "Claim_funds"})

C13_RacingClaimants ==
  /\ \A c \in Chains : \A id \in DOMAIN payouts[c] : ClaimCount(payouts[c][id]) <= 1
  /\ ( /\ CalledOn("Claim_funds")
       /\ keccak256_hash(last.param.secret) = PreOrder.secret_hash
       /\ CallTime < PreOrder.expiration_timestamp )
     => IF ClaimCount(PrePayouts) = 0
          THEN PreAnnounced => (last.err = "" /\ ClaimCount(payouts[last.chain][last.id]) = 1)
          ELSE last.err = "Order already claimed" /\ ChangedNothing

\* The second claimant, with the matching secret and inside the window, loses
\* against a first claimant who is somebody else.
C13_Witness ==
  /\ CalledOn("Claim_funds")
  /\ keccak256_hash(last.param.secret) = PreOrder.secret_hash
  /\ CallTime < PreOrder.expiration_timestamp
  /\ Len(PrePayouts) = 1
  /\ PrePayouts[1].by = "Claim_funds"
  /\ PrePayouts[1].to # last.sender
  /\ last.err = "Order already claimed"

(***************************************************************************)
(* C14 - public withdrawal fallback: on an Announced record, from the time *)
(* its public withdrawal stage opens until its expiration, a Claim with    *)
(* the matching secret succeeds for every caller, a caller who is no party *)
(* of the record included, and leaves the record claimed (revealed_secret  *)
(* set to the secret, no longer Announced).                                *)
(***************************************************************************)
\* The public withdrawal stage of a leg opens this long after its creation
\* (in units of the model's time, one unit after the withdrawal stage).
dstPublicWithdrawal == 2

C14_PublicWithdrawal ==
  ( /\ IsCall("Claim_funds")
    /\ PreAnnounced
    /\ CallTime >= deployed[last.chain][last.id] + dstPublicWithdrawal
    /\ CallTime < PreOrder.expiration_timestamp
    /\ keccak256_hash(last.param.secret) = PreOrder.secret_hash )
  => ( /\ last.err = ""
       /\ Order(last.chain, last.id).revealed_secret = Some(last.param.secret)
       /\ ClaimCount(payouts[last.chain][last.id]) = 1
       /\ ~ Announced(last.chain, last.id) )

\* The claimant is the owner: neither the record's maker nor a party that
\* creates or is paid from records.
C14_Witness ==
  /\ IsCall("Claim_funds")
  /\ PreAnnounced
  /\ CallTime >= deployed[last.chain][last.id] + dstPublicWithdrawal
  /\ CallTime < PreOrder.expiration_timestamp
  /\ last.sender = Owner
  /\ PreOrder.maker_address # Owner
  /\ last.err = ""
  /\ Order(last.chain, last.id).revealed_secret = Some(last.param.secret)

(***************************************************************************)
(* C15 - field immutability: in every reachable state, after any sequence  *)
(* of successful and failed Announce, Fund, Claim, Cancel and Rescue calls *)
(* on this or another record, every record's amount, secret_hash,          *)
(* maker_address and expiration_timestamp are the values its creating call *)
(* stored.                                                                 *)
(***************************************************************************)
C15_FieldImmutability ==
  \A c \in Chains : \A id \in DOMAIN original[c] :
    /\ Exists(c, id)
    /\ Order(c, id).amount = original[c][id].amount
    /\ Order(c, id).secret_hash = original[c][id].secret_hash
    /\ Order(c, id).maker_address = original[c][id].maker_address
    /\ Order(c, id).expiration_timestamp = original[c][id].expiration_timestamp

\* Two records of different makers and amounts, the first one claimed, the
\* second one rescued, and the last call a failed one.
C15_Witness ==
  /\ Exists(DstChain, 0) /\ Exists(DstChain, 1)
  /\ Order(DstChain, 0).amount # Order(DstChain, 1).amount
  /\ Order(DstChain, 0).maker_address # Order(DstChain, 1).maker_address
  /\ Option_is_some(Order(DstChain, 0).revealed_secret)
  /\ Len(payouts[DstChain][1]) = 1
  /\ payouts[DstChain][1][1].by = "Rescue_funds"
  /\ last.entry \in TerminalEntries
  /\ last.err # ""

(***************************************************************************)
(* C16 - the secret reveal is write-once: a record's revealed_secret is    *)
(* unset exactly as long as no Claim has succeeded on it; the call that    *)
(* sets it is a successful Claim on that record and sets it to the Claim's *)
(* secret, whose keccak256 digest is the record's secret_hash; no call,    *)
(* successful or failed, changes or unsets it afterwards.                  *)
(***************************************************************************)
C16_RevealWriteOnce ==
  /\ \A c \in Chains : \A id \in DOMAIN storage[c].orders :
       /\ (Order(c, id).revealed_secret = None) <=> (ClaimCount(payouts[c][id]) = 0)
       /\ \A s \in Secrets :
            Order(c, id).revealed_secret = Some(s)
              => keccak256_hash(s) = Order(c, id).secret_hash
  /\ last.entry \notin {"none", "tick"}
     => \A id \in DOMAIN last.pre.storage.orders :
          LET before == last.pre.storage.orders[id].revealed_secret
              after == Order(last.chain, id).revealed_secret
          IN IF Option_is_some(before)
               THEN after = before
               ELSE after # None
                      => ( /\ IsCall("Claim_funds") /\ last.id = id /\ last.err = ""
                           /\ after = Some(last.param.secret) )

\* The owner's Rescue succeeds on a claimed record and the revealed secret
\* stays what the Claim stored.
C16_Witness ==
  /\ CalledOn("Rescue_funds")
  /\ last.err = ""
  /\ Option_is_some(PreOrder.revealed_secret)
  /\ Order(last.chain, last.id).revealed_secret = PreOrder.revealed_secret
  /\ keccak256_hash(Order(last.chain, last.id).revealed_secret[1]) = PreOrder.secret_hash

(***************************************************************************)
(* C17 - order ids are a monotonic sequence: a successful Announce or Fund *)
(* stores the new record under the current order_counter, which no record  *)
(* has yet, and increments the counter by exactly one, leaving every other *)
(* record as it was; a failed Announce or Fund leaves the counter and the  *)
(* records as they were; no other call changes the counter; the records    *)
(* are exactly those of the ids 0 .. order_counter - 1, each stored under  *)
(* its own id, and no call removes one.                                    *)
(***************************************************************************)
CreatingEntries == {"Announce_order", "Fund_dst_escrow"}

C17_OrderIdSequence ==
  /\ \A c \in Chains :
       /\ DOMAIN storage[c].orders = 0..(storage[c].order_counter - 1)
       /\ \A id \in DOMAIN storage[c].orders : Order(c, id).id = id
  /\ last.entry \notin {"none", "tick"}
     => LET pre == last.pre.storage
            post == storage[last.chain]
        IN /\ DOMAIN pre.orders \subseteq DOMAIN post.orders
           /\ IF last.entry \in CreatingEntries /\ last.err = ""
                THEN /\ last.id = pre.order_counter
                     /\ last.id \notin DOMAIN pre.orders
                     /\ post.order_counter = pre.order_counter + 1
                     /\ DOMAIN post.orders = DOMAIN pre.orders \cup {last.id}
                     /\ \A id \in DOMAIN pre.orders : post.orders[id] = pre.orders[id]
                ELSE /\ post.order_counter = pre.order_counter
                     /\ DOMAIN post.orders = DOMAIN pre.orders
                     /\ last.entry \in CreatingEntries => post = pre

\* A second record is created, by Fund, next to a record that Announce
\* created and a Claim has written to.
C17_Witness ==
  /\ IsCall("Fund_dst_escrow")
  /\ last.err = ""
  /\ last.id = 1
  /\ storage[last.chain].order_counter = 2
  /\ Option_is_some(Order(last.chain, 0).revealed_secret)
  /\ Order(last.chain, 0).maker_address = Alice
  /\ Order(last.chain, 1).maker_address = Bob

(***************************************************************************)
(* C18 - all-or-nothing calls: every call that fails a guard (unknown      *)
(* order, wrong secret, window closed or not yet open, caller not the      *)
(* owner, record already claimed, invalid input) leaves the whole storage, *)
(* every record and the order counter, as it found it and returns no       *)
(* transfer; a call either fails with one of the contract's messages or    *)
(* succeeds.                                                               *)
(***************************************************************************)
Failures ==
  {"Invalid amount", "Invalid min amount", "Invalid expiration",
   "Invalid secret hash length", "Order not found", "Order already claimed",
   "Order expired", "Invalid secret", "Order not expired yet",
   "Only owner can rescue funds"}

C19_CreationValidation ==
  /\ \A c \in Chains : \A id \in DOMAIN storage[c].orders :
       Order(c, id).amount > 0 /\ Order(c, id).secret_hash.len = HashLen
  /\ ( /\ last.entry \in CreatingEntries
       /\ \/ last.param.secret_hash.len # HashLen
          \/ IsCall("Announce_order") /\ last.param.src_amount <= 0
          \/ IsCall("Fund_dst_escrow") /\ last.param.dst_amount <= 0 )
     => ChangedNothing

(***************************************************************************)
(* C20 - timelock round trip: for every anchor deployedAt that a slot      *)
(* holds and every schedule of NumStages stage times whose offsets from    *)
(* the anchor each fit a slot (0 .. SlotMask), unpackTimelocks of          *)
(* packTimelocks of the schedule returns the same deployedAt and the same  *)
(* stage times.                                                            *)
(***************************************************************************)
FitsSlot(n) == 0 <= n /\ n <= SlotMask

C20_TimelockRoundTrip ==
  ( /\ codec.pc = "unpacked"
    /\ DOMAIN codec.timelocks = Stages
    /\ FitsSlot(codec.deployedAt)
    /\ \A s \in Stages : FitsSlot(codec.timelocks[s] - codec.deployedAt) )
  => ( /\ codec.unpacked.deployedAt = codec.deployedAt
       /\ \A s \in Stages : codec.unpacked.stages[s] = codec.timelocks[s] )

\* The largest anchor, with the smallest and the largest offset side by side.
C20_Witness ==
  /\ codec.pc = "unpacked"
  /\ DOMAIN codec.timelocks = Stages
  /\ codec.deployedAt = SlotMask
  /\ \A s \in Stages : FitsSlot(codec.timelocks[s] - codec.deployedAt)
  /\ codec.timelocks[0] = codec.deployedAt + SlotMask
  /\ codec.timelocks[1] = codec.deployedAt
  /\ codec.timelocks[NumStages - 1] = codec.deployedAt + SlotMask
  /\ codec.unpacked.stages = codec.timelocks

(***************************************************************************)
(* C21 - pack range check: whenever the offset of some defined stage does  *)
(* not fit a slot (it is negative or above SlotMask), packTimelocks throws *)
(* a RangeError and returns no packed word.                                *)
(***************************************************************************)
\* The offset of a defined stage of the schedule the codec was given.
OffsetOf(s) == codec.timelocks[s] - codec.deployedAt

C21_PackRangeCheck ==
  ( /\ codec.pc \in {"packed", "unpacked"}
    /\ \E s \in DOMAIN codec.timelocks : ~ FitsSlot(OffsetOf(s)) )
  => codec.packed = Throw("RangeError")

(***************************************************************************)
(* C22 - slot isolation: in the word packTimelocks returns, the top slot   *)
(* holds deployedAt and the slot of every defined stage holds that stage's *)
(* offset truncated to the width of a slot, whatever the other stages'     *)
(* offsets are.                                                            *)
(***************************************************************************)
\* The content of a slot of a word (slot NumStages is the anchor's).
SlotOf(word, s) == BitAnd(ShiftRight(word, s * SlotBits), SlotMask)

C22_SlotIsolation ==
  ( /\ codec.pc \in {"packed", "unpacked"}
    /\ DOMAIN codec.timelocks # {} )
  => ( /\ codec.packed.sign = ""
       /\ SlotOf(BigInt(codec.packed), NumStages) = codec.deployedAt % (SlotMask + 1)
       /\ \A s \in DOMAIN codec.timelocks :
            SlotOf(BigInt(codec.packed), s) = OffsetOf(s) % (SlotMask + 1) )

(***************************************************************************)
(* C23 - unpack totality: for every word of NumStages + 1 slots,           *)
(* unpackTimelocks returns deployedAt, the content of the top slot, and    *)
(* NumStages stage times, each deployedAt plus the content of its slot and *)
(* so at least deployedAt; and a stage that was left out of the schedule   *)
(* at pack time unpacks to deployedAt itself.                              *)
(***************************************************************************)
IsWord(str) == str.sign = "" /\ BigInt(str) < 2^((NumStages + 1) * SlotBits)

C23_UnpackTotality ==
  (codec.pc = "unpacked" /\ IsWord(codec.packed))
  => ( /\ DOMAIN codec.unpacked = {"deployedAt", "stages"}
       /\ codec.unpacked.deployedAt = SlotOf(BigInt(codec.packed), NumStages)
       /\ DOMAIN codec.unpacked.stages = Stages
       /\ \A s \in Stages :
            /\ codec.unpacked.stages[s] =
                 codec.unpacked.deployedAt + SlotOf(BigInt(codec.packed), s)
            /\ codec.unpacked.stages[s] >= codec.unpacked.deployedAt
            /\ (DOMAIN codec.timelocks # {} /\ s \notin DOMAIN codec.timelocks)
                 => codec.unpacked.stages[s] = codec.unpacked.deployedAt )

(***************************************************************************)
(* C29 - payout conservation: for every record, after any sequence of      *)
(* Claim, Cancel and Rescue calls by any callers, the amounts of all the   *)
(* transfers the contract has returned for that record sum to at most the  *)
(* record's amount.                                                        *)
(***************************************************************************)
C29_PayoutConservation ==
  \A c \in Chains : \A id \in DOMAIN storage[c].orders :
    PaidOut(payouts[c][id]) <= Order(c, id).amount

(***************************************************************************)
(* C30 - escrow solvency: in every reachable state the tez the escrow      *)
(* holds are at least the sum of the amounts of the records for which no   *)
(* transfer has been returned yet, and the amount a record carries is the  *)
(* tez that were sent with the Announce or Fund that created it.           *)
(***************************************************************************)
Unpaid(c) == {id \in DOMAIN storage[c].orders : payouts[c][id] = <<>>}

RECURSIVE Owed(_, _)
Owed(c, ids) ==
  IF ids = {} THEN 0
  ELSE LET id == CHOOSE x \in ids : TRUE
       IN Order(c, id).amount + Owed(c, ids \ {id})

C30_Solvency ==
  \A c \in Chains :
    /\ ledger[c].balance >= Owed(c, Unpaid(c))
    /\ \A id \in DOMAIN storage[c].orders : ledger[c].deposits[id] = Order(c, id).amount

(***************************************************************************)
(* C26 - concurrent swaps do not interfere: a call about one order leaves  *)
(* the record of every other order of the same escrow as it was, and no    *)
(* sequence of calls about other orders takes away an order's payout: as   *)
(* long as no transfer has been returned for an order whose amount was     *)
(* deposited at its creation, the escrow holds at least that amount, so    *)
(* that the order's Claim or Cancel can be paid in full.                   *)
(***************************************************************************)
Backed(c, id) == ledger[c].deposits[id] = Order(c, id).amount

C26_NoInterference ==
  /\ last.entry \notin {"none", "tick"}
       => \A id \in DOMAIN last.pre.storage.orders \ {last.id} :
            storage[last.chain].orders[id] = last.pre.storage.orders[id]
  /\ \A c \in Chains : \A id \in Unpaid(c) :
       Backed(c, id) => ledger[c].balance >= Order(c, id).amount

(***************************************************************************)
(* C24 - leg creation order: in every coordinator run a step that creates  *)
(* or funds the destination leg is issued only after the creation of the   *)
(* source leg has been confirmed, and once the creation of the source leg  *)
(* has failed the run issues no step for the destination leg.              *)
(***************************************************************************)
Creation == {"announce", "create"}

Running == coord.pc # "idle"

Issued(k) == coord.log[k].step

C24_LegCreationOrder ==
  Running =>
    /\ \A k \in 1..Len(coord.log) :
         (Issued(k).leg = "dst" /\ Issued(k).call \in Creation \cup {"fund"})
           => \E j \in 1..(k - 1) : /\ Issued(j).leg = "src"
                                    /\ Issued(j).call \in Creation
                                    /\ coord.log[j].outcome = "confirmed"
    /\ \A j \in 1..Len(coord.log) :
         (Issued(j).leg = "src" /\ Issued(j).call \in Creation /\ coord.log[j].outcome = "failed")
           => \A k \in (j + 1)..Len(coord.log) : Issued(k).leg # "dst"

(***************************************************************************)
(* C25 - chain-appropriate commitments: in every coordinator run the       *)
(* commitment issued for a leg is the digest of the run's secret under the *)
(* hash function of that leg's escrow (keccak256 on Tezos as on the EVM    *)
(* chain), so that the secret passes the hashlock check of each leg.       *)
(***************************************************************************)
C25_Commitments ==
  Running =>
    \A k \in 1..Len(coord.log) :
      Issued(k).secret_hash # None => check_hash(coord.secret, Issued(k).secret_hash[1])

(***************************************************************************)
(* C27 - coordinator failure handling.  As claimed: when a step of a run   *)
(* fails, the run issues no later step.                                    *)
(***************************************************************************)
Halted(k) == k = Len(coord.log) /\ coord.pc = "failed"

PreUnclaimed == ~ Option_is_some(PreOrder.revealed_secret)

C31_ClaimCancelExclusive ==
  /\ ( /\ CalledOn("Claim_funds")
       /\ PreUnclaimed
       /\ check_hash(last.param.secret, PreOrder.secret_hash) )
     => /\ (last.err = "") <=> (CallTime < PreOrder.expiration_timestamp)
        /\ \A sender \in Addresses :
             (cancel_swap(last.id, last.pre.storage, sender, CallTime).err = "")
               <=> (last.err # "")
  /\ (CalledOn("Cancel_swap") /\ PreUnclaimed)
     => /\ (last.err = "") <=> (CallTime >= PreOrder.expiration_timestamp)
        /\ \A sender \in Addresses : \A secret \in Secrets :
             check_hash(secret, PreOrder.secret_hash)
               => ( (claim_funds(last.id, secret, last.pre.storage, sender, CallTime).err = "")
                      <=> (last.err # "") )

C31_Witness ==
  /\ CalledOn("Cancel_swap")
  /\ PreUnclaimed
  /\ CallTime = PreOrder.expiration_timestamp
  /\ last.err = ""
  /\ \E secret \in Secrets : check_hash(secret, PreOrder.secret_hash)

(***************************************************************************)
(* C32 - no claim after a refund: with a clock that never goes backwards,  *)
(* a Claim on a record on which a Cancel has succeeded fails, whatever the *)
(* secret and the caller, changes nothing and returns no transfer; so a    *)
(* record for which a Cancel returned a refund has no revealed secret and  *)
(* no claim transfer in its log.                                           *)
(***************************************************************************)
Refunded(log) == \E k \in 1..Len(log) : log[k].by = "Cancel_swap"

C32_NoClaimAfterRefund ==
  /\ (CalledOn("Claim_funds") /\ Refunded(PrePayouts)) => ChangedNothing
  /\ \A c \in Chains : \A id \in DOMAIN storage[c].orders :
       Refunded(payouts[c][id])
         => /\ ~ Option_is_some(Order(c, id).revealed_secret)
            /\ ClaimCount(payouts[c][id]) = 0

C32_Witness ==
  /\ CalledOn("Claim_funds")
  /\ Refunded(PrePayouts)
  /\ check_hash(last.param.secret, PreOrder.secret_hash)
  /\ last.err = "Order expired"

(***************************************************************************)
(* C33 - no third-party capture: once a Claim has revealed the secret on   *)
(* one leg of a swap, a Claim with that secret on the other leg pays       *)
(* nobody but the counterparty entitled to that leg (the taker on the      *)
(* maker's leg, the maker on the taker's leg); a Claim by anybody else     *)
(* returns no transfer to its caller.                                      *)
(***************************************************************************)
OtherLeg(c) == IF c = SrcChain THEN DstChain ELSE SrcChain

Entitled(c) == IF c = SrcChain THEN Bob ELSE Alice

C33_NoThirdPartyCapture ==
  ( /\ IsCall("Claim_funds")
    /\ Exists(OtherLeg(last.chain), 0)
    /\ Order(OtherLeg(last.chain), 0).revealed_secret = Some(last.param.secret)
    /\ last.sender # Entitled(last.chain) )
  => \A k \in 1..Len(last.ops) : last.ops[k].to # last.sender

(***************************************************************************)
(* C34 - the coordinator acts on its own order: in every run, the order id *)
(* of a Claim or Cancel issued on the Tezos escrow is the id the escrow    *)
(* assigned to the order that the run's own announceOrder created,         *)
(* whatever the escrow's counter was when the run started and whatever     *)
(* other parties' orders were created in between.                          *)
(***************************************************************************)
C34_OwnOrder ==
  Running =>
    \A j \in 1..Len(coord.log) : \A k \in (j + 1)..Len(coord.log) :
      ( /\ coord.log[j].assigned # None
        /\ Issued(k).chain = "tezos"
        /\ Issued(k).call \in {"claim", "cancel"} )
      => Issued(k).order_id = coord.log[j].assigned

(***************************************************************************)
(* C35 - the coordinator's Announce is accepted: the announce_order call   *)
(* the coordinator issues for a Tezos leg (positive amount, positive       *)
(* duration, 32-byte secret hash, minDstAmount 0) passes the escrow's      *)
(* input guards and creates the order's record.                            *)
(***************************************************************************)
C35_AnnounceAccepted ==
  Running =>
    \A k \in 1..Len(coord.log) :
      (Issued(k).chain = "tezos" /\ Issued(k).call = "announce" /\ coord.client = TaquitoClient)
      => LET r == main(AnnounceCall(Issued(k)), storage[DstChain], Alice, now[DstChain])
         IN /\ AnnounceCall(Issued(k)).src_amount > 0
            /\ AnnounceCall(Issued(k)).expiration_duration > 0
            /\ AnnounceCall(Issued(k)).secret_hash.len = HashLen
            /\ r.err = ""
            /\ storage[DstChain].order_counter \in DOMAIN r.storage.orders

(***************************************************************************)
(* C36 - the coordinator's packed word encodes its schedule: the word the  *)
(* coordinator builds with packTimelocks for a swap unpacks, with          *)
(* unpackTimelocks, to the deployedAt it passed and to exactly the seven   *)
(* stage times configured for that swap: no stage is dropped and no stage  *)
(* offset is negative.                                                     *)
(***************************************************************************)
C36_CoordinatorSchedule ==
  ("schedule" \in DOMAIN codec /\ codec.pc = "unpacked")
  => ( /\ DOMAIN codec.timelocks = Stages
       /\ \A s \in Stages : OffsetOf(s) >= 0
       /\ DOMAIN codec.unpacked = {"deployedAt", "stages"}
       /\ codec.unpacked.deployedAt = codec.deployedAt
       /\ \A s \in Stages : codec.unpacked.stages[s] = codec.schedule[s] )

(***************************************************************************)
(* C37 - the mock client refines the contract: in every sequence of        *)
(* announceOrder, claimFunds and cancelSwap calls, a call the mock client  *)
(* reports as successful is a call the contract accepts in the same        *)
(* sequence; a claimFunds with a wrong secret or on an unknown or already  *)
(* claimed order, and a cancelSwap before expiration, fail in both.        *)
(***************************************************************************)
\* The mock client returns a hash for the last call instead of throwing.
MockSucceeds ==
  DOMAIN MockTezosEscrowClient(MethodOf(last.entry), last.param) = {"hash"}

C37_MockRefinesContract ==
  (IsCall("Announce_order") \/ IsCall("Claim_funds") \/ IsCall("Cancel_swap"))
  => /\ MockSucceeds => last.err = ""
     /\ last.err \in {"Invalid secret", "Order not found", "Order already claimed",
                      "Order not expired yet"} => ~ MockSucceeds

(***************************************************************************)
(* C38 - validateEscrowParams accepts well-formed input: it returns        *)
(* without throwing for every parameter set whose orderHash and hashlock   *)
(* are 0x followed by 64 hex digits, whose maker and taker are Tezos       *)
(* addresses of 36 characters with prefix tz1, tz2 or tz3, whose token and *)
(* timelocks are present, whose amount is > 0 and whose safetyDeposit is   *)
(* >= 0.                                                                   *)
(***************************************************************************)
IsTezosAddress(str) ==
  /\ Len(str) = 36
  /\ SubSeq(str, 1, 3) \in {<<"t", "z", "1">>, <<"t", "z", "2">>, <<"t", "z", "3">>}
  /\ \A i \in 4..Len(str) : str[i] \in AlphaNumeric

WellFormed(params) ==
  /\ MatchesHex(params.orderHash)
  /\ MatchesHex(params.hashlock)
  /\ IsTezosAddress(params.maker)
  /\ IsTezosAddress(params.taker)
  /\ params.token # <<>>
  /\ params.timelocks # <<>>
  /\ params.amount # <<>> /\ BigIntDecimal(params.amount) > 0
  /\ params.safetyDeposit # <<>> /\ BigIntDecimal(params.safetyDeposit) >= 0

C38_AcceptsWellFormed ==
  (codec.pc = "validated" /\ WellFormed(codec.params)) => codec.result = Undefined

====
